---- MODULE Spec2Model ----
(***************************************************************************)
(* Model of the ingestion engine of interplanetaryAPI/forchecktoporov:      *)
(* data_ingestion.py (create_lookup, ingest_companies, ingest_people,       *)
(* get_hash, ingest_data) over the tables declared in models.py.            *)
(*                                                                          *)
(* The database is shared state; every process that starts the application  *)
(* (apps.py, ForchecktoporovConfig.ready) runs ingest_data once.  A run is  *)
(* split at its database operations, so that runs of two processes can      *)
(* interleave exactly where the code lets them.                             *)
(***************************************************************************)
EXTENDS Integers, Sequences, FiniteSets, TLC

(***************************************************************************)
(* Bounds                                                                   *)
(***************************************************************************)
\* number of successive application start-ups (ingest_data runs) explored
MaxRuns == 3
\* size the People table may reach: a run is started only if the table can
\* take a new version of every record of the file
MaxRows == 6

Procs == {"p1", "p2"}

None == "None"

(***************************************************************************)
(* Generic helpers                                                          *)
(***************************************************************************)
Range(s) == {s[j] : j \in 1..Len(s)}

\* python: list(dict.keys()) after inserting the items of s in order
\* (the distinct items of s, in order of first appearance)
RECURSIVE Distinct(_)
Distinct(s) ==
    IF s = <<>> THEN <<>>
    ELSE LET r == Distinct(SubSeq(s, 1, Len(s) - 1))
             x == s[Len(s)]
         IN  IF x \in Range(r) THEN r ELSE Append(r, x)

RECURSIVE Flatten(_)
Flatten(ss) == IF ss = <<>> THEN <<>> ELSE Head(ss) \o Flatten(Tail(ss))

(***************************************************************************)
(* Input files: ./static/resources/companies.json and people.json           *)
(***************************************************************************)
C(index, company) == [index |-> index, company |-> company]

CompanyFileList ==
    << <<C(0, "Acme")>>,
       <<C(1, "Acme")>>,
       <<C(0, "Acme"), C(1, "Bolt")>>,
       <<C(0, "Acme"), C(1, "Acme")>>,
       <<C(0, "Acme"), C(0, "Bolt")>> >>

\* "registered" as written in the file: date-time, optional blanks, offset
Registered == <<"2016-07-13T12:29:07", " ", "-10:00">>

P(index, guid, name, company_id, food, friends) ==
    [index |-> index, guid |-> guid, name |-> name, company_id |-> company_id,
     gender |-> "female", eyeColor |-> "brown",
     favouriteFood |-> food, tags |-> <<"x">>,
     friends |-> [j \in 1..Len(friends) |-> [index |-> friends[j]]],
     registered |-> Registered]

PeopleFileList ==
    << \* one person, as in the end-to-end example
      <<P(0, "g1", "A", 1, <<"apple">>, <<>>)>>,
      \* the same person with another favourite food
      <<P(0, "g1", "A", 1, <<"carrot">>, <<>>)>>,
      \* two records carrying the same guid
      <<P(0, "g1", "A", 1, <<"apple">>, <<>>),
        P(1, "G1", "B", 1, <<"apple">>, <<>>)>>,
      \* A with friends B and C (both later in the file)
      <<P(0, "g1", "A", 1, <<"apple">>, <<1, 2>>),
        P(1, "g2", "B", 1, <<"apple">>, <<>>),
        P(2, "g3", "C", 1, <<"apple">>, <<0>>)>>,
      \* A's friend list shrunk to B
      <<P(0, "g1", "A", 1, <<"apple">>, <<1>>),
        P(1, "g2", "B", 1, <<"apple">>, <<>>),
        P(2, "g3", "C", 1, <<"apple">>, <<0>>)>>,
      \* B changed, A and C as before
      <<P(0, "g1", "A", 1, <<"apple">>, <<1, 2>>),
        P(1, "g2", "B", 1, <<"pizza", "apple">>, <<>>),
        P(2, "g3", "C", 1, <<"apple">>, <<0>>)>>,
      \* friends of each other; the second record refers to an organization
      \* index that may be absent
      <<P(0, "g1", "A", 1, <<"apple">>, <<1>>),
        P(1, "g2", "B", 2, <<"apple">>, <<0>>)>> >>

CompanyFiles == Range(CompanyFileList)
PeopleFiles == Range(PeopleFileList)

(***************************************************************************)
(* Conversions                                                              *)
(***************************************************************************)
\* uuid.UUID(text): the canonical value of a guid written in any letter case
uuid_table == [g1 |-> 1, G1 |-> 1, g2 |-> 2, g3 |-> 3]
UUIDValid(text) == text \in DOMAIN uuid_table
UUID(text) == uuid_table[text]

\* str.replace(' ', '') on the registered text
replace_blank(tokens) == SelectSeq(tokens, LAMBDA t : t # " ")

\* django.utils.dateparse.parse_datetime: the instant (in UTC), or None when
\* the text is not of the form <date>T<time><offset>
parse_datetime(tokens) ==
    IF tokens = <<"2016-07-13T12:29:07", "-10:00">>
    THEN "2016-07-13T22:29:07Z"
    ELSE None

\* hashlib.md5(content).hexdigest(): a digest determined by the content
AllFiles == CompanyFileList \o PeopleFileList
get_hash(file) == CHOOSE h \in 1..Len(AllFiles) : AllFiles[h] = file

(***************************************************************************)
(* State                                                                    *)
(***************************************************************************)
VARIABLES
    company_file,           \* ./static/resources/companies.json
    people_file,            \* ./static/resources/people.json
    Company,                \* table: rows [name], id = position
    Dim,                    \* tables Food, Tag, Gender, EyeColor
    People,                 \* table: one row per version of an individual
    IngestedFiles,          \* table: rows [companyfile_hash, peoplefile_hash]
    clock,                  \* timezone.now()
    runs,                   \* ingest_data runs started so far
    pc,                     \* per process: position in ingest_data
    cur,                    \* per process: loop positions
    hashes,                 \* per process: companyfile_hash, peoplefile_hash
    company_name_lookup,    \* per process: ingest_companies, name -> Company
    company_index_lookup,   \* per process: ingest_companies, index -> Company
    people_index_uuid,      \* per process: ingest_people, index -> guid
    lookup,                 \* per process: foods/tags/gender/eye_color lookups
    person_friends_combos,  \* per process: deferred (person, friends) pairs
    existing_person         \* per process: the row found by person_query, or 0

disk == <<company_file, people_file>>
tables == <<Company, Dim, People, IngestedFiles>>
locals == <<cur, hashes, company_name_lookup, company_index_lookup,
            people_index_uuid, lookup, person_friends_combos, existing_person>>
vars == <<company_file, people_file, Company, Dim, People, IngestedFiles,
          clock, runs, pc, cur, hashes, company_name_lookup,
          company_index_lookup, people_index_uuid, lookup,
          person_friends_combos, existing_person>>

(***************************************************************************)
(* python dicts                                                             *)
(***************************************************************************)
EmptyDict == <<>>
DictSet(d, k, v) == [x \in DOMAIN d \cup {k} |-> IF x = k THEN v ELSE d[x]]

(***************************************************************************)
(* models.py                                                                *)
(***************************************************************************)
\* the dimension models in the order ingest_people resolves them, with the
\* field each lookup is built on and whether that field is declared unique
DimOrder == <<"Food", "Tag", "Gender", "EyeColor">>
lookup_field == [Food |-> "name", Tag |-> "name",
                 Gender |-> "gender", EyeColor |-> "color"]
unique_field == [Food |-> FALSE, Tag |-> TRUE,
                 Gender |-> TRUE, EyeColor |-> TRUE]

\* Food.__type_lookup__
type_lookup == [orange |-> "fr", beetroot |-> "ve", strawberry |-> "fr",
                cucumber |-> "ve", celery |-> "ve", banana |-> "fr",
                carrot |-> "ve", apple |-> "fr"]

\* variant: Model.save, the food type is left at its default
Food_save_default(name) == [name |-> name, food_type |-> "un"]

\* Food.save: the row written for a Food instance (food_type defaults to 'un')
Food_save(name) ==
    [name |-> name,
     food_type |-> IF name \in DOMAIN type_lookup THEN type_lookup[name]
                   ELSE "un"]

\* the row object_model.objects.create(**{lookup_field: value}) inserts
NewDimRow(d, value) ==
    IF d = "Food" THEN Food_save(value)
    ELSE [f \in {lookup_field[d]} |-> value]

\* the columns of People, and its many-to-many relations
ConcreteFields == {"id", "guid", "name", "company_id", "gender_id",
                   "eye_color_id", "registered", "is_active",
                   "created_at", "updated_at"}
RelationFields == {"tags", "favourite_food", "friends"}

\* Model.from_db: the instance loaded from a row (relations are not in __dict__)
Instance(row) == [f \in ConcreteFields |-> row[f]]

\* Model.save on a People instance: UPDATE of every column when the row
\* exists, INSERT otherwise.  Attributes that are not columns are ignored.
People_save(table, inst) ==
    IF inst.id \in 1..Len(table)
    THEN [table EXCEPT ![inst.id] =
            [f \in ConcreteFields \cup RelationFields |->
                IF f \in ConcreteFields THEN inst[f] ELSE @[f]]]
    ELSE Append(table,
            [f \in ConcreteFields \cup RelationFields |->
                IF f \in ConcreteFields THEN inst[f] ELSE {}])

\* People.registered is NOT NULL: saving an instance without it raises
People_save_ok(inst) == inst.registered # None

\* OnlyActiveManager.get_queryset: the rows with is_active = True
active(table) == {r \in 1..Len(table) : table[r].is_active}

\* People.__eq__: equality of the instances' attribute dictionaries without
\* created_at, updated_at, id and _state
\* variant: the audit timestamps are compared too
field_not_compared_short == {"id", "_state"}

field_not_compared == {"created_at", "updated_at", "id", "_state"}
People_eq(a, b) ==
    LET mydict == DOMAIN a \ field_not_compared
        otherdict == DOMAIN b \ field_not_compared
    IN  /\ mydict = otherdict
        /\ \A k \in mydict : a[k] = b[k]

\* Meta.ordering = ['name']
NameOrder == <<"A", "B", "C">>
NameRank(n) == CHOOSE j \in 1..Len(NameOrder) : NameOrder[j] = n

(***************************************************************************)
(* Initial state: empty database, no process started                        *)
(***************************************************************************)
InitLocals ==
    /\ cur = [p \in Procs |-> [d |-> 0, k |-> 0, i |-> 0]]
    /\ hashes = [p \in Procs |-> None]
    /\ company_name_lookup = [p \in Procs |-> EmptyDict]
    /\ company_index_lookup = [p \in Procs |-> EmptyDict]
    /\ people_index_uuid = [p \in Procs |-> EmptyDict]
    /\ lookup = [p \in Procs |-> [d \in Range(DimOrder) |-> EmptyDict]]
    /\ person_friends_combos = [p \in Procs |-> <<>>]
    /\ existing_person = [p \in Procs |-> 0]

InitTables ==
    /\ Company = <<>>
    /\ Dim = [d \in Range(DimOrder) |-> <<>>]
    /\ People = <<>>
    /\ IngestedFiles = <<>>
    /\ clock = 1
    /\ runs = 0
    /\ pc = [p \in Procs |-> "idle"]

Init ==
    /\ company_file = <<>>
    /\ people_file = <<>>
    /\ InitTables
    /\ InitLocals

Running(p) == pc[p] \notin {"idle", "skipped", "done", "failed"}

\* the process ends: its local variables are gone
Exit(p, how) ==
    /\ pc' = [pc EXCEPT ![p] = how]
    /\ cur' = [cur EXCEPT ![p] = [d |-> 0, k |-> 0, i |-> 0]]
    /\ hashes' = [hashes EXCEPT ![p] = None]
    /\ company_name_lookup' = [company_name_lookup EXCEPT ![p] = EmptyDict]
    /\ company_index_lookup' = [company_index_lookup EXCEPT ![p] = EmptyDict]
    /\ people_index_uuid' = [people_index_uuid EXCEPT ![p] = EmptyDict]
    /\ lookup' = [lookup EXCEPT ![p] = [d \in Range(DimOrder) |-> EmptyDict]]
    /\ person_friends_combos' = [person_friends_combos EXCEPT ![p] = <<>>]
    /\ existing_person' = [existing_person EXCEPT ![p] = 0]

\* variant: the exception is caught around the loaders and the run goes on
Raise_caught(p) ==
    /\ pc' = [pc EXCEPT ![p] = "record"]
    /\ UNCHANGED locals

\* an exception raised in a loader: nothing in ingest_data (lines 226-228) or
\* in ready catches it, the run ends there
Raise(p) == Exit(p, "failed")

(***************************************************************************)
(* ingest_data, lines 214-224: fingerprints and the skip check              *)
(***************************************************************************)
\* variant: the two fingerprints compared with the wrong columns
Recorded_swapped(table, ch, ph) ==
    \E j \in 1..Len(table) :
        table[j].companyfile_hash = ph /\ table[j].peoplefile_hash = ch

Recorded(table, ch, ph) ==
    \E j \in 1..Len(table) :
        table[j].companyfile_hash = ch /\ table[j].peoplefile_hash = ph

ingest_data_begin(p, cf, pf) ==
    LET companyfile_hash == get_hash(cf)
        peoplefile_hash == get_hash(pf)
    IN  /\ runs' = runs + 1
        /\ IF Recorded(IngestedFiles, companyfile_hash, peoplefile_hash)
           THEN /\ pc' = [pc EXCEPT ![p] = "skipped"]
                /\ UNCHANGED hashes
           ELSE /\ pc' = [pc EXCEPT ![p] = "ingest_companies"]
                /\ hashes' = [hashes EXCEPT ![p] =
                        [companyfile_hash |-> companyfile_hash,
                         peoplefile_hash |-> peoplefile_hash]]
        /\ UNCHANGED <<tables, clock, cur, company_name_lookup,
                       company_index_lookup, people_index_uuid, lookup,
                       person_friends_combos, existing_person>>

\* a file pair is put in the resource directory and the application started,
\* no other start-up being in progress (apps.py, ready)
Run(cf, pf) ==
    /\ runs < MaxRuns
    /\ Len(People) + Len(pf) <= MaxRows
    /\ \A q \in Procs : ~Running(q)
    /\ company_file' = cf
    /\ people_file' = pf
    /\ ingest_data_begin("p1", cf, pf)

\* a process starts the application on the files in the resource directory,
\* whatever the other processes are doing
Startup(p) ==
    /\ pc[p] = "idle"
    /\ UNCHANGED disk
    /\ ingest_data_begin(p, company_file, people_file)

(***************************************************************************)
(* ingest_companies                                                         *)
(***************************************************************************)
\* variant: only the indexes are validated
assumptions_hold_indexes(new_companies) ==
    Len(new_companies) =
        Cardinality({new_companies[j].index : j \in 1..Len(new_companies)})

\* lines 64-67: the indexes and the names of the file are pairwise distinct
assumptions_hold(new_companies) ==
    LET new_company_indexes == [j \in 1..Len(new_companies) |->
                                    new_companies[j].index]
        new_company_names == [j \in 1..Len(new_companies) |->
                                    new_companies[j].company]
    IN  /\ Len(new_companies) = Cardinality(Range(new_company_indexes))
        /\ Len(new_companies) = Cardinality(Range(new_company_names))

\* variant: the existing companies are not loaded
existing_companies_none(table) == EmptyDict

\* lines 56-59: the lookup of the existing companies by name
existing_companies(table) ==
    [n \in {table[j].name : j \in 1..Len(table)} |->
        CHOOSE j \in 1..Len(table) : table[j].name = n]

\* lines 55-67: load the existing companies, read and validate the file
ingest_companies_load(p) ==
    /\ pc[p] = "ingest_companies"
    /\ LET new_companies == company_file
       IN  IF assumptions_hold(new_companies)
           THEN /\ company_name_lookup' = [company_name_lookup EXCEPT ![p] =
                        existing_companies(Company)]
                /\ pc' = [pc EXCEPT ![p] = "companies_loop"]
                /\ cur' = [cur EXCEPT ![p].i = 1]
                /\ UNCHANGED <<hashes, company_index_lookup, people_index_uuid,
                               lookup, person_friends_combos, existing_person>>
           ELSE Raise(p)               \* AssertionError
    /\ UNCHANGED <<disk, tables, clock, runs>>

\* lines 72-78: one record of the file.  Company.name is unique: saving a
\* name that is in the table raises IntegrityError
ingest_companies_record(p) ==
    /\ pc[p] = "companies_loop"
    /\ LET company == company_file[cur[p].i]
           known == company.company \in DOMAIN company_name_lookup[p]
           clash == \E j \in 1..Len(Company) : Company[j].name = company.company
           this_company == IF known THEN company_name_lookup[p][company.company]
                           ELSE Len(Company) + 1
       IN  IF ~known /\ clash
           THEN /\ Raise(p)            \* IntegrityError
                /\ UNCHANGED Company
           ELSE /\ Company' = IF known THEN Company
                              ELSE Append(Company, [name |-> company.company])
                /\ company_index_lookup' = [company_index_lookup EXCEPT ![p] =
                        DictSet(@, company.index, this_company)]
                /\ IF cur[p].i < Len(company_file)
                   THEN /\ cur' = [cur EXCEPT ![p].i = @ + 1]
                        /\ UNCHANGED pc
                   ELSE /\ cur' = [cur EXCEPT ![p].i = 0]
                        /\ pc' = [pc EXCEPT ![p] = "harvest"]
                /\ UNCHANGED <<hashes, company_name_lookup, people_index_uuid,
                               lookup, person_friends_combos, existing_person>>
    /\ UNCHANGED <<disk, Dim, People, IngestedFiles, clock, runs>>

(***************************************************************************)
(* ingest_people, pass 1: lines 96-119                                      *)
(***************************************************************************)
\* variant: only the first record is harvested
field_values_first(d, people) ==
    Distinct(Flatten([j \in 1..1 |->
        CASE d = "Food" -> people[j].favouriteFood
          [] d = "Tag" -> people[j].tags
          [] d = "Gender" -> <<people[j].gender>>
          [] d = "EyeColor" -> <<people[j].eyeColor>>]))

\* the distinct values of a sub model over all records (dict keys, in order
\* of first appearance)
field_values(d, people) ==
    Distinct(Flatten([j \in 1..Len(people) |->
        CASE d = "Food" -> people[j].favouriteFood
          [] d = "Tag" -> people[j].tags
          [] d = "Gender" -> <<people[j].gender>>
          [] d = "EyeColor" -> <<people[j].eyeColor>>]))

\* where the run continues once sub model number d is done up to value k
NextLookup(people, d, k) ==
    IF d >= 1 /\ k < Len(field_values(DimOrder[d], people))
    THEN [d |-> d, k |-> k + 1]
    ELSE LET later == {e \in (d + 1)..Len(DimOrder) :
                            field_values(DimOrder[e], people) # <<>>}
         IN  IF later = {} THEN [d |-> 0, k |-> 0]
             ELSE [d |-> CHOOSE e \in later : \A g \in later : e <= g, k |-> 1]

\* lines 101-113: the index -> guid mapping (a later record with the same
\* index overwrites an earlier one); uuid.UUID raises on a malformed guid
ingest_people_harvest(p) ==
    /\ pc[p] = "harvest"
    /\ LET people == people_file
           first == NextLookup(people, 0, 0)
       IN  IF \A j \in 1..Len(people) : UUIDValid(people[j].guid)
           THEN /\ people_index_uuid' = [people_index_uuid EXCEPT ![p] =
                        [x \in {people[j].index : j \in 1..Len(people)} |->
                            LET last == CHOOSE j \in 1..Len(people) :
                                    /\ people[j].index = x
                                    /\ \A h \in 1..Len(people) :
                                          people[h].index = x => h <= j
                            IN  UUID(people[last].guid)]]
                /\ IF first.d = 0
                   THEN /\ pc' = [pc EXCEPT ![p] = "pass2"]
                        /\ cur' = [cur EXCEPT ![p] =
                                [d |-> 0, k |-> 0, i |-> 1]]
                   ELSE /\ pc' = [pc EXCEPT ![p] = "create_lookup"]
                        /\ cur' = [cur EXCEPT ![p] =
                                [d |-> first.d, k |-> first.k, i |-> 0]]
                /\ UNCHANGED <<hashes, company_name_lookup, company_index_lookup,
                               lookup, person_friends_combos, existing_person>>
           ELSE Raise(p)               \* ValueError
    /\ UNCHANGED <<disk, tables, clock, runs>>

(***************************************************************************)
(* create_lookup, lines 33-38: one value of one sub model                   *)
(***************************************************************************)
\* variant: the get never finds a row (create instead of get_or_create)
Matching_none(d, value) == {}

\* the rows object_model.objects.get(**{lookup_field: value}) matches
Matching(d, value) ==
    {j \in 1..Len(Dim[d]) : Dim[d][j][lookup_field[d]] = value}

\* the run moves on to the next value, the next sub model, or pass 2
Advance(p) ==
    LET next == NextLookup(people_file, cur[p].d, cur[p].k)
    IN  IF next.d = 0
        THEN /\ pc' = [pc EXCEPT ![p] = "pass2"]
             /\ cur' = [cur EXCEPT ![p] =
                        [d |-> 0, k |-> 0, i |-> 1]]
        ELSE /\ pc' = [pc EXCEPT ![p] = "create_lookup"]
             /\ cur' = [cur EXCEPT ![p] =
                        [d |-> next.d, k |-> next.k, i |-> 0]]

\* get_or_create, the get: one row is returned, none leads to the create,
\* several raise MultipleObjectsReturned
create_lookup_get(p) ==
    /\ pc[p] = "create_lookup"
    /\ LET d == DimOrder[cur[p].d]
           value == field_values(d, people_file)[cur[p].k]
           found == Matching(d, value)
       IN  IF value \in DOMAIN lookup[p][d]
           THEN /\ Advance(p)
                /\ UNCHANGED <<hashes, company_name_lookup, company_index_lookup,
                               people_index_uuid, lookup, person_friends_combos,
                               existing_person>>
           ELSE IF Cardinality(found) = 1
           THEN /\ lookup' = [lookup EXCEPT ![p][d] =
                        DictSet(@, value, CHOOSE j \in found : TRUE)]
                /\ Advance(p)
                /\ UNCHANGED <<hashes, company_name_lookup, company_index_lookup,
                               people_index_uuid, person_friends_combos,
                               existing_person>>
           ELSE IF found = {}
           THEN /\ pc' = [pc EXCEPT ![p] = "get_or_create"]
                /\ UNCHANGED locals
           ELSE Raise(p)               \* MultipleObjectsReturned
    /\ UNCHANGED <<disk, tables, clock, runs>>

\* get_or_create, the create: the row is inserted; if the field is unique and
\* another process inserted the value meanwhile, IntegrityError is caught and
\* the existing row is fetched
create_lookup_create(p) ==
    /\ pc[p] = "get_or_create"
    /\ LET d == DimOrder[cur[p].d]
           value == field_values(d, people_file)[cur[p].k]
           found == Matching(d, value)
           violated == unique_field[d] /\ found # {}
           this_item == IF violated THEN CHOOSE j \in found : TRUE
                        ELSE Len(Dim[d]) + 1
       IN  /\ Dim' = IF violated THEN Dim
                     ELSE [Dim EXCEPT ![d] = Append(@, NewDimRow(d, value))]
           /\ lookup' = [lookup EXCEPT ![p][d] = DictSet(@, value, this_item)]
    /\ Advance(p)
    /\ UNCHANGED <<disk, Company, People, IngestedFiles, clock, runs, hashes,
                   company_name_lookup, company_index_lookup,
                   people_index_uuid, person_friends_combos, existing_person>>

(***************************************************************************)
(* ingest_people, pass 2: lines 124-184, one record of the file             *)
(***************************************************************************)
\* variant: the existing version is looked up by name
person_query_by_name(table, current_person) ==
    {r \in active(table) : table[r].name = current_person.name}

\* line 147 and 152: person_query[0], the first active row with the guid in
\* the order of Meta.ordering; rows of equal name come in any order
person_query(table, current_person) ==
    {r \in active(table) : table[r].guid = current_person.guid}
First(table, q) ==
    {r \in q : \A o \in q : NameRank(table[r].name) <= NameRank(table[o].name)}

\* line 167: "existing_person.active = False" binds an instance attribute
\* named active (People.active is the manager, People.is_active the column)
Deactivated(inst, now) ==
    [f \in DOMAIN inst \cup {"active"} |->
        IF f = "active" THEN FALSE
        ELSE IF f = "updated_at" THEN now ELSE inst[f]]

\* variant: favourite_food.set is left out
Persisted_without_food(table, inst, tag_ids, food_ids) ==
    LET saved == People_save(table, inst)
    IN  [saved EXCEPT ![inst.id].tags = tag_ids]

\* lines 170-173 and 179-182: the candidate is inserted with its tags and
\* favourite foods
Persisted(table, inst, tag_ids, food_ids) ==
    LET saved == People_save(table, inst)
    IN  [saved EXCEPT ![inst.id].tags = tag_ids,
                      ![inst.id].favourite_food = food_ids]

\* lines 162-165: the record shows no change against the existing version
Unchanged(table, current_person, e, foods, friends, tags) ==
    /\ People_eq(current_person, Instance(table[e]))
    /\ table[e].favourite_food = foods
    /\ {table[f].guid : f \in table[e].friends} = friends
    /\ table[e].tags = tags

\* variant: company_id used as the index itself
company_key_plain(person) == person.company_id

\* line 139: the key the record's organization is looked up by
company_key(person) == person.company_id - 1

ingest_people_record(p) ==
    /\ pc[p] = "pass2"
    /\ LET person == people_file[cur[p].i]
           last == cur[p].i = Len(people_file)
           friends_ok == \A j \in 1..Len(person.friends) :
                            person.friends[j].index \in DOMAIN people_index_uuid[p]
           company_ok == company_key(person) \in DOMAIN company_index_lookup[p]
       IN  IF ~(friends_ok /\ company_ok)
           THEN /\ Raise(p)            \* KeyError, lines 129 and 139
                /\ UNCHANGED <<People, clock>>
           ELSE
           LET current_persons_foods ==
                   {lookup[p]["Food"][person.favouriteFood[j]] :
                        j \in 1..Len(person.favouriteFood)}
               current_persons_tags ==
                   {lookup[p]["Tag"][person.tags[j]] : j \in 1..Len(person.tags)}
               current_persons_friends ==
                   [j \in 1..Len(person.friends) |->
                        people_index_uuid[p][person.friends[j].index]]
               current_person ==
                   [id |-> Len(People) + 1,
                    guid |-> UUID(person.guid),
                    name |-> person.name,
                    company_id |-> company_index_lookup[p][company_key(person)],
                    gender_id |-> lookup[p]["Gender"][person.gender],
                    eye_color_id |-> lookup[p]["EyeColor"][person.eyeColor],
                    registered |-> parse_datetime(replace_blank(person.registered)),
                    is_active |-> TRUE,
                    created_at |-> clock,
                    updated_at |-> clock]
               q == person_query(People, current_person)
               combo == [person |-> current_person,
                         friends |-> current_persons_friends]
               Continue ==
                   IF last
                   THEN IF person_friends_combos'[p] = <<>>
                        THEN /\ pc' = [pc EXCEPT ![p] = "record"]
                             /\ cur' = [cur EXCEPT ![p].i = 0]
                        ELSE /\ pc' = [pc EXCEPT ![p] = "pass3"]
                             /\ cur' = [cur EXCEPT ![p].i = 1]
                   ELSE /\ cur' = [cur EXCEPT ![p].i = @ + 1]
                        /\ UNCHANGED pc
               Keep == UNCHANGED <<hashes, company_name_lookup,
                                   company_index_lookup, people_index_uuid,
                                   lookup>>
           IN  IF q = {}
               THEN \* the record doesn't exist at all
                    IF People_save_ok(current_person)
                    THEN /\ People' = Persisted(People, current_person,
                                    current_persons_tags, current_persons_foods)
                         /\ clock' = clock + 1
                         /\ person_friends_combos' =
                                [person_friends_combos EXCEPT ![p] = Append(@, combo)]
                         /\ existing_person' = [existing_person EXCEPT ![p] = 0]
                         /\ Continue
                         /\ Keep
                    ELSE /\ Raise(p)   \* IntegrityError
                         /\ UNCHANGED <<People, clock>>
               ELSE \E e \in First(People, q) :
                    IF Unchanged(People, current_person, e, current_persons_foods,
                                 Range(current_persons_friends),
                                 current_persons_tags)
                    THEN /\ UNCHANGED <<People, clock, person_friends_combos>>
                         /\ existing_person' = [existing_person EXCEPT ![p] = e]
                         /\ Continue
                         /\ Keep
                    ELSE LET shut == People_save(People,
                                        Deactivated(Instance(People[e]), clock))
                         IN  IF People_save_ok(current_person)
                             THEN /\ People' = Persisted(shut, current_person,
                                        current_persons_tags, current_persons_foods)
                                  /\ clock' = clock + 1
                                  /\ person_friends_combos' =
                                        [person_friends_combos EXCEPT ![p] =
                                            Append(@, combo)]
                                  /\ existing_person' =
                                        [existing_person EXCEPT ![p] = e]
                                  /\ Continue
                                  /\ Keep
                             ELSE /\ People' = shut
                                  /\ clock' = clock + 1
                                  /\ Raise(p)     \* IntegrityError
    /\ UNCHANGED <<disk, Company, Dim, IngestedFiles, runs>>

(***************************************************************************)
(* ingest_people, pass 3: lines 187-189, one deferred pair                  *)
(***************************************************************************)
\* variant: only the first friend is looked up
filter_guid_in_first(table, friends) ==
    {r \in active(table) : friends # <<>> /\ table[r].guid = friends[1]}

\* People.active.filter(guid__in=friends)
filter_guid_in(table, friends) ==
    {r \in active(table) : table[r].guid \in Range(friends)}

ingest_people_friends(p) ==
    /\ pc[p] = "pass3"
    /\ LET combo == person_friends_combos[p][cur[p].i]
           linked == [People EXCEPT ![combo.person.id].friends =
                            filter_guid_in(People, combo.friends)]
       IN  People' = People_save(linked, combo.person)
    /\ IF cur[p].i < Len(person_friends_combos[p])
       THEN /\ cur' = [cur EXCEPT ![p].i = @ + 1]
            /\ UNCHANGED pc
       ELSE /\ cur' = [cur EXCEPT ![p].i = 0]
            /\ pc' = [pc EXCEPT ![p] = "record"]
    /\ UNCHANGED <<disk, Company, Dim, IngestedFiles, clock, runs, hashes,
                   company_name_lookup, company_index_lookup,
                   people_index_uuid, lookup, person_friends_combos,
                   existing_person>>

(***************************************************************************)
(* ingest_data, lines 230-232: the file pair is recorded                    *)
(***************************************************************************)
ingest_data_record(p) ==
    /\ pc[p] = "record"
    /\ IngestedFiles' = Append(IngestedFiles, hashes[p])
    /\ Exit(p, "done")
    /\ UNCHANGED <<disk, Company, Dim, People, clock, runs>>

(***************************************************************************)
(* Specifications                                                           *)
(***************************************************************************)
Step(p) ==
    \/ ingest_companies_load(p)
    \/ ingest_companies_record(p)
    \/ ingest_people_harvest(p)
    \/ create_lookup_get(p)
    \/ create_lookup_create(p)
    \/ ingest_people_record(p)
    \/ ingest_people_friends(p)
    \/ ingest_data_record(p)

\* successive start-ups, each on a file pair of its own
Next ==
    \/ \E cf \in CompanyFiles, pf \in PeopleFiles : Run(cf, pf)
    \/ \E p \in Procs : Step(p)

Spec == Init /\ [][Next]_vars

\* two processes started on the same file pair
InitConc ==
    /\ company_file \in CompanyFiles
    /\ people_file \in PeopleFiles
    /\ InitTables
    /\ InitLocals

NextConc ==
    \/ \E p \in Procs : Startup(p)
    \/ \E p \in Procs : Step(p)

SpecConc == InitConc /\ [][NextConc]_vars

(***************************************************************************)
(* Vocabulary of the properties                                             *)
(***************************************************************************)
\* the step is one of process p
StepOf(p) == pc'[p] # pc[p] \/ cur'[p] # cur[p]

\* the organization record a population record refers to under a given
\* offset between company_id and index
Organizations(person, offset) ==
    {j \in 1..Len(company_file) :
        company_file[j].index = person.company_id - offset}

\* the guids a population record names as friends
FriendGuids(person) ==
    {UUID(people_file[j].guid) : j \in
        {h \in 1..Len(people_file) :
            \E f \in 1..Len(person.friends) :
                person.friends[f].index = people_file[h].index}}

NamesOf(d, ids) == {Dim[d][j][lookup_field[d]] : j \in ids}

\* a version (row r of table) carries exactly what the record says
Matches(person, table, r) ==
    /\ table[r].guid = UUID(person.guid)
    /\ table[r].name = person.name
    /\ table[r].registered = parse_datetime(replace_blank(person.registered))
    /\ \E j \in Organizations(person, 1) :
            Company[table[r].company_id].name = company_file[j].company
    /\ NamesOf("Gender", {table[r].gender_id}) = {person.gender}
    /\ NamesOf("EyeColor", {table[r].eye_color_id}) = {person.eyeColor}
    /\ NamesOf("Tag", table[r].tags) = Range(person.tags)
    /\ NamesOf("Food", table[r].favourite_food) = Range(person.favouriteFood)
    /\ {table[f].guid : f \in table[r].friends} = FriendGuids(person)

HasDuplicates(file) ==
    \E a, b \in 1..Len(file) :
        a # b /\ (file[a].index = file[b].index \/ file[a].company = file[b].company)

OnDisk(table) ==
    \E j \in 1..Len(table) :
        /\ table[j].companyfile_hash = get_hash(company_file)
        /\ table[j].peoplefile_hash = get_hash(people_file)

(***************************************************************************)
(* C1: at every observation point, at most one People row per guid has       *)
(* is_active = true.                                                        *)
(***************************************************************************)
C1_OneActivePerGuid ==
    \A a, b \in active(People) : People[a].guid = People[b].guid => a = b

(***************************************************************************)
(* C2: a run of ingest_data on a file pair whose fingerprints are recorded   *)
(* (a pair a previous run completed on) returns at once and writes nothing:  *)
(* the store after it equals the store before it.                           *)
(***************************************************************************)
C2_SecondRunNoWrites ==
    [][ (runs' = runs + 1 /\ OnDisk(IngestedFiles)')
            => /\ pc'["p1"] = "skipped"
               /\ UNCHANGED <<Company, Dim, People, IngestedFiles>> ]_vars

C2_Witness ==
    /\ pc["p1"] = "skipped"
    /\ People # <<>>
    /\ OnDisk(IngestedFiles)

(***************************************************************************)
(* C3: an IngestedFiles record is appended only by the run that has          *)
(* completed both loaders, for the pair it ingested; a run that aborts       *)
(* leaves no record of its pair, and the next run on that pair ingests.      *)
(***************************************************************************)
C3_SnapshotOnlyOnSuccess ==
    /\ [][ \A p \in Procs :
            /\ (IngestedFiles' # IngestedFiles /\ StepOf(p)) =>
                    /\ pc[p] = "record" /\ pc'[p] = "done"
                    /\ {company_file[j].index : j \in 1..Len(company_file)}
                            = DOMAIN company_index_lookup[p]
                    /\ \A j \in 1..Len(people_file) :
                            \E r \in active(People) :
                                People[r].guid = UUID(people_file[j].guid)
                    /\ IngestedFiles' = Append(IngestedFiles,
                            [companyfile_hash |-> get_hash(company_file),
                             peoplefile_hash |-> get_hash(people_file)])
            /\ (pc'[p] = "failed" /\ pc[p] # "failed") =>
                    /\ IngestedFiles' = IngestedFiles
                    /\ ~OnDisk(IngestedFiles')
            /\ (pc[p] = "failed" /\ runs' = runs + 1 /\ disk' = disk) =>
                    pc'[p] = "ingest_companies" ]_vars
    /\ [](\A p \in Procs : pc[p] = "failed" => ~OnDisk(IngestedFiles))

C3_Witness ==
    /\ pc["p1"] = "ingest_companies"
    /\ runs >= 2
    /\ People # <<>>
    /\ IngestedFiles = <<>>

(***************************************************************************)
(* C4: reconciling a record that equals the existing active version in its   *)
(* scalar fields, foreign keys, tags, favourite foods and friend guids       *)
(* creates no row and changes nothing in the store.                         *)
(***************************************************************************)
C4_UnchangedRecordNoWrite ==
    [][ \A p \in Procs :
            ( /\ pc[p] = "pass2" /\ StepOf(p)
              /\ existing_person'[p] # 0
              /\ Matches(people_file[cur[p].i], People, existing_person'[p]) )
            => UNCHANGED <<Company, Dim, People, IngestedFiles, clock>> ]_vars

C4_Witness ==
    /\ pc["p1"] = "record"
    /\ existing_person["p1"] # 0
    /\ person_friends_combos["p1"] = <<>>
    /\ Len(Company) = 2

(***************************************************************************)
(* C5: reconciling a record that differs from the existing active version    *)
(* deactivates that version (is_active = false, updated_at stamped) and      *)
(* creates exactly one new active row with the same guid whose tags and      *)
(* favourite foods are the record's.                                        *)
(***************************************************************************)
C5_ChangedRecordNewVersion ==
    [][ \A p \in Procs :
            ( /\ pc[p] = "pass2" /\ StepOf(p) /\ pc'[p] # "failed"
              /\ existing_person'[p] # 0
              /\ ~Matches(people_file[cur[p].i], People, existing_person'[p]) )
            => LET person == people_file[cur[p].i]
                   e == existing_person'[p]
                   n == Len(People')
               IN  /\ ~People'[e].is_active
                   /\ People'[e].updated_at = clock
                   /\ n = Len(People) + 1
                   /\ People'[n].is_active
                   /\ People'[n].guid = UUID(person.guid)
                   /\ {Dim["Tag"][t].name : t \in People'[n].tags}
                            = Range(person.tags)
                   /\ {Dim["Food"][f].name : f \in People'[n].favourite_food}
                            = Range(person.favouriteFood) ]_vars

(***************************************************************************)
(* C6: when ingest_people has finished, the friends of every individual      *)
(* recorded for deferred linking are exactly the active versions of the      *)
(* guids of its friend list; the active version of a person whose friend     *)
(* list shrank holds no edge to the dropped friend.                         *)
(***************************************************************************)
C6_FriendsReplaced ==
    \A p \in Procs : pc[p] = "record" =>
        \A c \in 1..Len(person_friends_combos[p]) :
            LET combo == person_friends_combos[p][c]
            IN  \A r \in active(People) :
                    People[r].guid = combo.person.guid =>
                        People[r].friends =
                            {x \in active(People) :
                                People[x].guid \in Range(combo.friends)}

(***************************************************************************)
(* C7: an organization file with two records of the same index or of the     *)
(* same name makes the run fail in ingest_companies before any write: no     *)
(* Company row, no run of ingest_people, no IngestedFiles record.           *)
(***************************************************************************)
C7_DuplicatesFailBeforeWrite ==
    /\ [][ \A p \in Procs :
            /\ (runs' = runs + 1 /\ HasDuplicates(company_file'))
                    => UNCHANGED <<Company, Dim, People, IngestedFiles>>
            /\ (pc[p] = "ingest_companies" /\ StepOf(p)
                    /\ HasDuplicates(company_file))
                    => /\ pc'[p] = "failed"
                       /\ UNCHANGED <<Company, Dim, People, IngestedFiles>> ]_vars
    /\ [](\A p \in Procs :
            pc[p] \in {"companies_loop", "harvest", "create_lookup",
                       "get_or_create", "pass2", "pass3", "record", "done"}
                => ~HasDuplicates(company_file))
    /\ [](\A j \in 1..Len(IngestedFiles) : \A f \in CompanyFiles :
            HasDuplicates(f) => IngestedFiles[j].companyfile_hash # get_hash(f))

C7_Witness ==
    /\ pc["p1"] = "failed"
    /\ HasDuplicates(company_file)
    /\ Company = <<>>
    /\ \E a, b \in 1..Len(company_file) :
            a # b /\ company_file[a].company = company_file[b].company

(***************************************************************************)
(* C8 as stated: a record is linked to the organization whose index equals   *)
(* its company_id, and the end-to-end example (organization index 1,         *)
(* company_id 1) is ingested successfully.                                  *)
(***************************************************************************)
ExampleOnDisk ==
    /\ company_file = <<C(1, "Acme")>>
    /\ people_file = <<P(0, "g1", "A", 1, <<"apple">>, <<>>)>>

LinkedAtOffset(offset) ==
    \A p \in Procs :
        (pc[p] = "pass2" /\ StepOf(p) /\ Len(People') > Len(People))
        => LET person == people_file[cur[p].i]
               row == People'[Len(People')]
           IN  \E j \in Organizations(person, offset) :
                    Company'[row.company_id].name = company_file[j].company

C8_LinkedByEqualIndex ==
    /\ [][LinkedAtOffset(0)]_vars
    /\ [](ExampleOnDisk => pc["p1"] # "failed")

(***************************************************************************)
(* C8 amended: a record is linked to the organization whose index equals     *)
(* its company_id - 1, and a record for which the file has no such index     *)
(* aborts the run; the end-to-end example therefore fails without an         *)
(* Individual of its own and without a snapshot, while the same person       *)
(* with the organization at index 0 leaves one active Individual linked to   *)
(* Acme and one snapshot.                                                   *)
(***************************************************************************)
C8_LinkedByIndexMinusOne ==
    /\ [][ /\ LinkedAtOffset(1)
           /\ \A p \in Procs :
                (pc[p] = "pass2" /\ StepOf(p)
                    /\ Organizations(people_file[cur[p].i], 1) = {})
                => pc'[p] = "failed" /\ People' = People ]_vars
    /\ [](ExampleOnDisk =>
            /\ pc["p1"] \notin {"pass3", "record", "done", "skipped"}
            /\ ~OnDisk(IngestedFiles))
    /\ []((/\ runs = 1 /\ pc["p1"] = "done"
           /\ company_file = <<C(0, "Acme")>>
           /\ people_file = <<P(0, "g1", "A", 1, <<"apple">>, <<>>)>>)
          => /\ Len(People) = 1
             /\ People[1].is_active /\ People[1].name = "A"
             /\ Company[People[1].company_id].name = "Acme"
             /\ Len(IngestedFiles) = 1 /\ OnDisk(IngestedFiles))

C8_Witness ==
    /\ pc["p1"] = "done"
    /\ \E r \in active(People) :
            /\ People[r].name = "B"
            /\ Company[People[r].company_id].name = "Bolt"
            /\ \E j \in 1..Len(people_file) :
                    people_file[j].name = "B" /\ people_file[j].company_id = 2

(***************************************************************************)
(* C9: two ingest_data invocations never both pass the skip check and run    *)
(* the loaders, and never both append an IngestedFiles record.              *)
(***************************************************************************)
C9_Serialized ==
    /\ Cardinality({p \in Procs : Running(p)}) <= 1
    /\ \A a, b \in 1..Len(IngestedFiles) :
            IngestedFiles[a] = IngestedFiles[b] => a = b

(***************************************************************************)
(* C10: create_lookup returns a mapping with every candidate value, each     *)
(* mapped to a persisted entity whose natural key is that value; it creates  *)
(* one entity per value that is not in the store and none for a value that   *)
(* is, so no natural key is ever held by two entities.                      *)
(***************************************************************************)
C10_GetOrCreate ==
    /\ [](\A p \in Procs :
            pc[p] \in {"pass2", "pass3", "record"} =>
                \A d \in Range(DimOrder) :
                    /\ DOMAIN lookup[p][d] = Range(field_values(d, people_file))
                    /\ \A v \in DOMAIN lookup[p][d] :
                            /\ lookup[p][d][v] \in 1..Len(Dim[d])
                            /\ Dim[d][lookup[p][d][v]][lookup_field[d]] = v)
    /\ [](\A d \in Range(DimOrder) : \A a, b \in 1..Len(Dim[d]) :
            Dim[d][a][lookup_field[d]] = Dim[d][b][lookup_field[d]] => a = b)
    /\ [][ \A d \in Range(DimOrder) :
            Dim'[d] # Dim[d] =>
                /\ \E p \in Procs : pc[p] = "get_or_create" /\ StepOf(p)
                /\ Len(Dim'[d]) = Len(Dim[d]) + 1
                /\ SubSeq(Dim'[d], 1, Len(Dim[d])) = Dim[d]
                /\ Dim'[d][Len(Dim'[d])][lookup_field[d]]
                        \in Range(field_values(d, people_file))
                /\ \A j \in 1..Len(Dim[d]) :
                        Dim[d][j][lookup_field[d]]
                            # Dim'[d][Len(Dim'[d])][lookup_field[d]] ]_vars

C10_Witness ==
    /\ pc["p1"] = "pass2"
    /\ runs >= 2
    /\ People # <<>>
    /\ Len(Dim["Food"]) = 2
    /\ Len(field_values("Food", people_file)) = 2

(***************************************************************************)
(* C11: for every sub model (EyeColor, Gender, Tag, Food), processes racing  *)
(* in create_lookup to create the same natural-key value never leave two     *)
(* rows with that natural key, and the uniqueness violation of the losing    *)
(* create is answered by fetching the existing row, not by an error.         *)
(***************************************************************************)
C11_NoDuplicateUnderRace ==
    /\ [](\A d \in Range(DimOrder) : \A a, b \in 1..Len(Dim[d]) :
            Dim[d][a][lookup_field[d]] = Dim[d][b][lookup_field[d]] => a = b)
    /\ [][ \A p \in Procs :
            (pc[p] \in {"create_lookup", "get_or_create"} /\ StepOf(p)) =>
                /\ pc'[p] # "failed"
                /\ \A d \in Range(DimOrder) : \A v \in DOMAIN lookup'[p][d] :
                        Dim'[d][lookup'[p][d][v]][lookup_field[d]] = v ]_vars

(***************************************************************************)
(* C12: a People row that reconciliation has closed (lines 166-168: the      *)
(* version a changed record replaces, is_active false, updated_at stamped)   *)
(* is an immutable historical version: no later step of the same run or of   *)
(* a later run changes its is_active, its updated_at or any other field,     *)
(* also when the row was created earlier in the same run and is held in      *)
(* person_friends_combos.                                                   *)
(***************************************************************************)
Closed(table, r) ==
    ~table[r].is_active \/ table[r].updated_at # table[r].created_at

C12_InactiveImmutable ==
    [][ \A r \in 1..Len(People) :
            Closed(People, r) => People'[r] = People[r] ]_vars

(***************************************************************************)
(* C13: under successive runs of ingest_companies no two Company rows have   *)
(* the same name: a record whose name is stored reuses that row, a row is    *)
(* created only for a name that is not stored, and the mapping returned has  *)
(* exactly one entry per record index of the file, each leading to the row   *)
(* of the record's name.                                                    *)
(***************************************************************************)
C13_CompanyNamesUnique ==
    /\ [](\A a, b \in 1..Len(Company) :
            Company[a].name = Company[b].name => a = b)
    /\ [][ /\ Company' # Company =>
                \E p \in Procs : pc[p] = "companies_loop" /\ StepOf(p)
           /\ \A p \in Procs :
                (pc[p] = "companies_loop" /\ StepOf(p)) =>
                    LET company == company_file[cur[p].i]
                        held == {j \in 1..Len(Company) :
                                    Company[j].name = company.company}
                    IN  /\ pc'[p] # "failed"
                        /\ company.index \in DOMAIN company_index_lookup'[p]
                        /\ IF held # {}
                           THEN /\ Company' = Company
                                /\ company_index_lookup'[p][company.index] \in held
                           ELSE /\ Company' = Append(Company,
                                                [name |-> company.company])
                                /\ company_index_lookup'[p][company.index]
                                        = Len(Company') ]_vars
    /\ [](\A p \in Procs : pc[p] = "harvest" =>
            /\ DOMAIN company_index_lookup[p] =
                    {company_file[j].index : j \in 1..Len(company_file)}
            /\ \A j \in 1..Len(company_file) :
                    Company[company_index_lookup[p][company_file[j].index]].name
                        = company_file[j].company)

C13_Witness ==
    /\ pc["p1"] = "harvest"
    /\ runs >= 2
    /\ People # <<>>
    /\ Len(company_file) = 2
    /\ Len(Company) = 2
    /\ People[1].company_id = company_index_lookup["p1"][0]

(***************************************************************************)
(* C14 as stated: a population record whose company_id is not an index of    *)
(* the organization file fails the whole run: ingest_people raises at that   *)
(* record, ingest_data aborts, and no IngestedFiles record of the pair is    *)
(* written.                                                                 *)
(***************************************************************************)
AbsentRaises(offset) ==
    \A p \in Procs :
        (pc[p] = "pass2" /\ StepOf(p)
            /\ Organizations(people_file[cur[p].i], offset) = {})
        => /\ pc'[p] = "failed"
           /\ IngestedFiles' = IngestedFiles

AbsentNotRecorded(offset) ==
    (OnDisk(IngestedFiles)
        \/ \E p \in Procs : pc[p] \in {"pass3", "record", "done"})
    => \A j \in 1..Len(people_file) :
            Organizations(people_file[j], offset) # {}

C14_AbsentIndexFails ==
    [][AbsentRaises(0)]_vars /\ []AbsentNotRecorded(0)

(***************************************************************************)
(* C14 amended: a population record whose company_id - 1 is not an index of  *)
(* the organization file fails the whole run: ingest_people raises at that   *)
(* record, ingest_data aborts, and no IngestedFiles record of the pair is    *)
(* written.                                                                 *)
(***************************************************************************)
C14_AbsentKeyFails ==
    [][AbsentRaises(1)]_vars /\ []AbsentNotRecorded(1)

C14_Witness ==
    /\ pc["p1"] = "failed"
    /\ runs = 1
    /\ Len(People) = 1
    /\ Organizations(people_file[1], 1) # {}
    /\ Organizations(people_file[2], 1) = {}
    /\ IngestedFiles = <<>>

(***************************************************************************)
(* C15: every Food row created through create_lookup carries the             *)
(* classification of the static name table: fruit for orange, strawberry,    *)
(* banana and apple, vegetable for beetroot, cucumber, celery and carrot,    *)
(* and unclassified for any other name.                                     *)
(***************************************************************************)
C15_FoodClassified ==
    /\ [](\A j \in 1..Len(Dim["Food"]) :
            LET food == Dim["Food"][j]
            IN  food.food_type =
                    IF food.name \in {"orange", "strawberry", "banana", "apple"}
                    THEN "fr"
                    ELSE IF food.name \in {"beetroot", "cucumber", "celery",
                                           "carrot"}
                    THEN "ve"
                    ELSE "un")
    /\ [][ \A p \in Procs :
            (pc[p] = "get_or_create" /\ StepOf(p) /\ DimOrder[cur[p].d] = "Food")
            => \E t \in {"fr", "ve", "un"} :
                    Dim'["Food"] = Append(Dim["Food"],
                        [name |-> field_values("Food", people_file)[cur[p].k],
                         food_type |-> t]) ]_vars

C15_Witness ==
    /\ \E j \in 1..Len(Dim["Food"]) :
            Dim["Food"][j].name = "pizza" /\ Dim["Food"][j].food_type = "un"
    /\ \E j \in 1..Len(Dim["Food"]) :
            Dim["Food"][j].name = "apple" /\ Dim["Food"][j].food_type = "fr"
    /\ \E j \in 1..Len(Dim["Food"]) :
            Dim["Food"][j].name = "carrot" /\ Dim["Food"][j].food_type = "ve"

(***************************************************************************)
(* C16: retry convergence.  When a run has failed part-way through pass 2    *)
(* (individuals persisted, no friend linked, no pair recorded) and a later   *)
(* run on a valid file pair gets through ingest_people, every guid of the    *)
(* population file has exactly one active version, that version carries the  *)
(* record's fields, tags, foods and friend guids, and its friend edges lead  *)
(* to active versions.                                                      *)
(***************************************************************************)
DistinctGuids(file) ==
    \A a, b \in 1..Len(file) : UUID(file[a].guid) = UUID(file[b].guid) => a = b

\* rows of People that the run of process p found in the store
FoundInStore(p) ==
    {r \in 1..Len(People) :
        \A c \in 1..Len(person_friends_combos[p]) :
            person_friends_combos[p][c].person.id # r}

Converged ==
    \A j \in 1..Len(people_file) :
        LET versions == {r \in active(People) :
                            People[r].guid = UUID(people_file[j].guid)}
        IN  /\ Cardinality(versions) = 1
            /\ \A r \in versions :
                    /\ Matches(people_file[j], People, r)
                    /\ People[r].friends \subseteq active(People)

C16_RetryConverges ==
    \A p \in Procs :
        (/\ pc[p] = "record"
         /\ IngestedFiles = <<>>
         /\ FoundInStore(p) # {}
         /\ DistinctGuids(people_file))
        => Converged

(***************************************************************************)
(* C17: when ingest_people has completed, every friend edge of the current   *)
(* active version of an individual leads to a row that is active and is the  *)
(* current version of the friend, also for an individual the run left        *)
(* unchanged while a friend of it was replaced by a new version.             *)
(***************************************************************************)
CurrentVersion(table, r) ==
    /\ table[r].is_active
    /\ \A o \in 1..Len(table) :
            table[o].guid = table[r].guid
                => table[o].created_at <= table[r].created_at

C17_FriendEdgesCurrent ==
    \A p \in Procs : pc[p] = "record" =>
        \A r \in 1..Len(People) : CurrentVersion(People, r) =>
            \A f \in People[r].friends : CurrentVersion(People, f)

ValuesOf(d, person) ==
    CASE d = "Food" -> Range(person.favouriteFood)
      [] d = "Tag" -> Range(person.tags)
      [] d = "Gender" -> {person.gender}
      [] d = "EyeColor" -> {person.eyeColor}

C19_Pass2PureLookup ==
    /\ [][ \A p \in Procs :
            (pc[p] = "pass2" /\ StepOf(p)) => UNCHANGED <<Dim, Company>> ]_vars
    /\ [](\A p \in Procs : pc[p] = "pass2" =>
            \A j \in 1..Len(people_file) : \A d \in Range(DimOrder) :
                \A v \in ValuesOf(d, people_file[j]) :
                    /\ v \in DOMAIN lookup[p][d]
                    /\ lookup[p][d][v] \in 1..Len(Dim[d])
                    /\ Dim[d][lookup[p][d][v]][lookup_field[d]] = v)

C19_Witness ==
    /\ pc["p1"] = "pass2"
    /\ cur["p1"].i = 2
    /\ Len(People) = 4
    /\ "pizza" \in DOMAIN lookup["p1"]["Food"]
    /\ Len(Dim["Food"]) >= 2

(***************************************************************************)
(* C20: within one run ingest_companies has completed before a People row    *)
(* is written, and no friend relation is written before every record of the  *)
(* population file has been reconciled; a friend reference to a record       *)
(* later in the file is therefore linked to an active version of that        *)
(* record.                                                                  *)
(***************************************************************************)
Reconciled(record) ==
    \E r \in active(People) : People[r].guid = UUID(record.guid)

C20_PassOrdering ==
    /\ [][ \A p \in Procs : (People' # People /\ StepOf(p)) =>
            /\ pc[p] \in {"pass2", "pass3"}
            /\ DOMAIN company_index_lookup[p] =
                    {company_file[j].index : j \in 1..Len(company_file)}
            /\ (\E r \in 1..Len(People) :
                    People'[r].friends # People[r].friends)
                => /\ pc[p] = "pass3"
                   /\ \A j \in 1..Len(people_file) :
                            Reconciled(people_file[j]) ]_vars
    /\ [](\A p \in Procs : pc[p] \in {"ingest_companies", "companies_loop",
                                      "harvest", "create_lookup",
                                      "get_or_create", "pass2"} =>
            \A c \in 1..Len(person_friends_combos[p]) :
                People[person_friends_combos[p][c].person.id].friends = {})
    /\ [](\A p \in Procs : pc[p] = "record" =>
            \A c \in 1..Len(person_friends_combos[p]) :
                LET combo == person_friends_combos[p][c]
                IN  \A g \in Range(combo.friends) :
                        \E f \in People[combo.person.id].friends :
                            CurrentVersion(People, f) /\ People[f].guid = g)

C20_Witness ==
    /\ pc["p1"] = "record"
    /\ \E c \in 1..Len(person_friends_combos["p1"]) :
            LET combo == person_friends_combos["p1"][c]
            IN  \E f \in People[combo.person.id].friends :
                    f > combo.person.id /\ People[f].guid \in Range(combo.friends)

(***************************************************************************)
(* C21: no step of a run deactivates or modifies a People row whose guid is  *)
(* not among the guids of the population file of that run: an individual     *)
(* dropped from a later file keeps its is_active flag, its fields and its    *)
(* tags, foods and friend edges.                                            *)
(***************************************************************************)
GuidsOf(file) == {UUID(file[j].guid) : j \in 1..Len(file)}

C21_AbsentGuidUntouched ==
    [][ /\ Len(People') >= Len(People)
        /\ \A r \in 1..Len(People) :
                People[r].guid \notin GuidsOf(people_file')
                    => People'[r] = People[r] ]_vars

\* a completed run that gave A a new version while C, absent from its
\* file, is in the store with its friend edge
C21_Witness ==
    /\ pc["p1"] = "done"
    /\ \E r, n \in active(People) :
            /\ People[r].guid \notin GuidsOf(people_file)
            /\ People[r].friends # {}
            /\ People[n].guid \in GuidsOf(people_file)
            /\ People[n].created_at > People[r].created_at

(***************************************************************************)
(* C22: IngestedFiles is append-only and written only by ingest_data: a      *)
(* step that changes it is the recording step of a run and appends one       *)
(* record, the pair of the run, leaving the records before it as they are;   *)
(* over successive runs no pair of fingerprints is recorded twice.           *)
(***************************************************************************)
C22_IngestedFilesAppendOnly ==
    /\ [][ IngestedFiles' # IngestedFiles =>
            /\ \E p \in Procs : pc[p] = "record" /\ pc'[p] = "done"
            /\ Len(IngestedFiles') = Len(IngestedFiles) + 1
            /\ SubSeq(IngestedFiles', 1, Len(IngestedFiles)) = IngestedFiles
            /\ ~OnDisk(IngestedFiles)
            /\ IngestedFiles'[Len(IngestedFiles')] =
                    [companyfile_hash |-> get_hash(company_file),
                     peoplefile_hash |-> get_hash(people_file)] ]_vars
    /\ [](\A a, b \in 1..Len(IngestedFiles) :
            (/\ IngestedFiles[a].companyfile_hash = IngestedFiles[b].companyfile_hash
             /\ IngestedFiles[a].peoplefile_hash = IngestedFiles[b].peoplefile_hash)
            => a = b)

\* two pairs are recorded and a third run, on one of them, has been skipped
C22_Witness ==
    /\ Len(IngestedFiles) = 2
    /\ runs = 3
    /\ pc["p1"] = "skipped"
    /\ IngestedFiles[1].peoplefile_hash # IngestedFiles[2].peoplefile_hash

====
